---- MODULE Spec2Model ----
(***************************************************************************)
(* mcp-opennutrition: the query layer over the foods table, as served by   *)
(* the FastMCP tools (server.py) and by the legacy dispatcher              *)
(* (server_old.py) through SQLiteDBAdapter (db_adapter.py).                *)
(*                                                                         *)
(* Text is a sequence of one-character strings, so that substring          *)
(* matching, LIKE wildcards, case folding, prefixes and lengths are        *)
(* computed.  The foods table is a sequence of rows in rowid (scan) order. *)
(* A stored nested attribute is a JSON text, given by its kind ("null",    *)
(* "array", "invalid") and its items.  The SQL statements are run the way  *)
(* SQLite runs them: a scan of the table that raises where SQLite raises   *)
(* and stops where LIMIT stops it.  Integers stay far below 2^63, the      *)
(* largest value sqlite3 binds.                                            *)
(***************************************************************************)
EXTENDS Integers, Sequences, FiniteSets, TLC

VARIABLES foods, pc, request, response, executed, tools, calls

vars == <<foods, pc, request, response, executed, tools, calls>>

(***************************************************************************)
(* Bounds of the model.                                                    *)
(***************************************************************************)
MaxRows == 3
MaxPage == 3
MaxPageSize == 2

(***************************************************************************)
(* Text helpers.                                                           *)
(***************************************************************************)
\* Python: needle in haystack
Contains(haystack, needle) ==
    \E i \in 0..(Len(haystack) - Len(needle)) :
        SubSeq(haystack, i + 1, i + Len(needle)) = needle

\* mutant of IsPrefix: the prefix looked for anywhere in the string
IsPrefix_Anywhere(p, s) == Contains(s, p)

\* Python: s.startswith(p)
IsPrefix(p, s) == Len(p) <= Len(s) /\ SubSeq(s, 1, Len(p)) = p

\* SQLite LOWER(): folds the ASCII letters only
SqlLowerChar(c) == CASE c = "A" -> "a" [] c = "B" -> "b" [] c = "C" -> "c" [] OTHER -> c
SqlLower(s) == [i \in 1..Len(s) |-> SqlLowerChar(s[i])]

IsSpace(c) == c = " "

\* Python str.strip(): drop leading and trailing whitespace
RECURSIVE LStrip(_)
LStrip(s) == IF s # <<>> /\ IsSpace(Head(s)) THEN LStrip(Tail(s)) ELSE s
RECURSIVE RStrip(_)
RStrip(s) == IF s # <<>> /\ IsSpace(s[Len(s)]) THEN RStrip(SubSeq(s, 1, Len(s) - 1)) ELSE s
Strip(s) == RStrip(LStrip(s))

\* Python str.split(): the maximal runs of non-whitespace characters, in order
RECURSIVE SplitFrom(_, _, _)
SplitFrom(s, cur, acc) ==
    IF s = <<>>
    THEN IF cur = <<>> THEN acc ELSE Append(acc, cur)
    ELSE IF IsSpace(Head(s))
         THEN SplitFrom(Tail(s), <<>>, IF cur = <<>> THEN acc ELSE Append(acc, cur))
         ELSE SplitFrom(Tail(s), Append(cur, Head(s)), acc)
Split(s) == SplitFrom(s, <<>>, <<>>)

\* SQLite LIKE without ESCAPE: % matches any run of characters, _ matches any
\* one character, every other character matches itself up to ASCII case.
RECURSIVE SqlLike(_, _)
SqlLike(str, pattern) ==
    IF pattern = <<>> THEN str = <<>>
    ELSE IF Head(pattern) = "%"
         THEN \E k \in 0..Len(str) : SqlLike(SubSeq(str, k + 1, Len(str)), Tail(pattern))
    ELSE IF str = <<>> THEN FALSE
    ELSE IF Head(pattern) = "_" THEN SqlLike(Tail(str), Tail(pattern))
    ELSE SqlLowerChar(Head(str)) = SqlLowerChar(Head(pattern))
         /\ SqlLike(Tail(str), Tail(pattern))

(***************************************************************************)
(* The foods table (scripts/setup_database.py) and its JSON columns.       *)
(***************************************************************************)
NestedAttrs == {"labels", "nutrition_100g", "alternate_names", "source",
                "serving", "package_size", "ingredient_analysis"}

\* json.dumps(None), json.dumps([...]) as written by the importer, and a
\* stored text that is not JSON
JsonNull == [kind |-> "null", items |-> <<>>]
JsonArray(items) == [kind |-> "array", items |-> items]
JsonInvalid == [kind |-> "invalid", items |-> <<>>]

\* the other JSON texts: an object (given by the values of its members), a
\* string (its characters), a number (its digits), true or false
JsonObject(items) == [kind |-> "object", items |-> items]
JsonString(chars) == [kind |-> "string", items |-> chars]
JsonNumber(digits) == [kind |-> "number", items |-> digits]
JsonBoolean(literal) == [kind |-> "boolean", items |-> literal]

\* values on the SQL side and on the Python side
SqlNull == [kind |-> "NULL", items |-> <<>>]
PyNone == [kind |-> "None", items |-> <<>>]
PyList(items) == [kind |-> "list", items |-> items]
PyDict(items) == [kind |-> "dict", items |-> items]
PyStr(chars) == [kind |-> "str", items |-> chars]
PyInt(digits) == [kind |-> "int", items |-> digits]
PyBool(literal) == [kind |-> "bool", items |-> literal]

EmptyText == <<>>

\* the NULL of a TEXT column (None in Python), which is no text: the one
\* sequence of the model that is not made of single characters
NullText == <<"NULL">>
Ean_A == <<"4", "0", "0", "6", "3", "8", "1", "3", "3", "3", "9", "3", "1">>
Ean_B == <<"1", "2", "3", "4", "5", "6", "7", "8", "9", "0", "1", "2", "3">>

\* the id of the row inserted i-th: "fd_<i>"
RowId(i) == <<"f", "d", "_", ToString(i)>>

\* A row of the foods table, all eleven columns.
FoodRow(id, name, ean, labels, alts) ==
    [id |-> id, name |-> name, type |-> "everyday", ean_13 |-> ean,
     labels |-> labels, nutrition_100g |-> JsonNull, alternate_names |-> alts,
     source |-> JsonNull, serving |-> JsonNull, package_size |-> JsonNull,
     ingredient_analysis |-> JsonNull]

\* The contents a dataset row may carry (everything but the id).
FoodItems ==
    { FoodRow(EmptyText, <<"a", "b">>, Ean_A, JsonArray(<< <<"v">> >>), JsonNull),
      FoodRow(EmptyText, <<"c">>, EmptyText, JsonNull, JsonArray(<< <<"a">>, <<"B">> >>)),
      FoodRow(EmptyText, <<"A">>, Ean_B, JsonNull, JsonArray(<< <<"a">>, <<"b", "a">> >>)),
      FoodRow(EmptyText, <<"c">>, Ean_A, JsonNull, JsonArray(<<>>)) }

\* The tables the importer can leave behind: up to MaxRows rows with distinct
\* ids, every JSON column valid.
Stores ==
    UNION { { [i \in 1..n |-> [items[i] EXCEPT !.id = RowId(i)]] :
                items \in [1..n -> FoodItems] } : n \in 0..MaxRows }

(***************************************************************************)
(* scripts/setup_database.py: the importer                                 *)
(***************************************************************************)
\* A cell of a JSON column of the dataset, as csv.DictReader hands it over:
\* the empty text, a text that is not JSON, or a JSON text.
EmptyCell == [kind |-> "empty", items |-> <<>>]
GarbageCell == [kind |-> "garbage", items |-> <<>>]

\* parse_json_field: json.loads of the cell, None for an empty cell and for a
\* cell json.loads does not accept
parse_json_field(cell) ==
    CASE cell.kind \in {"empty", "garbage", "null"} -> PyNone
      [] cell.kind = "array" -> PyList(cell.items)
      [] cell.kind = "object" -> PyDict(cell.items)
      [] cell.kind = "string" -> PyStr(cell.items)
      [] cell.kind = "number" -> PyInt(cell.items)
      [] cell.kind = "boolean" -> PyBool(cell.items)

\* json.dumps of a parsed value
json_dumps(value) ==
    CASE value.kind = "None" -> JsonNull
      [] value.kind = "list" -> JsonArray(value.items)
      [] value.kind = "dict" -> JsonObject(value.items)
      [] value.kind = "str" -> JsonString(value.items)
      [] value.kind = "int" -> JsonNumber(value.items)
      [] value.kind = "bool" -> JsonBoolean(value.items)

\* the row INSERTed for a dataset row: the text columns as read, each JSON
\* column as json.dumps(parse_json_field(cell))
ImportedRow(row) ==
    [c \in DOMAIN row |->
        IF c \in NestedAttrs THEN json_dumps(parse_json_field(row[c])) ELSE row[c]]

\* mutant of InsertOrReplace: INSERT OR IGNORE, which keeps the row that is
\* there
InsertOrReplace_Ignore(fs, row) ==
    IF \E i \in 1..Len(fs) : fs[i].id = row.id THEN fs ELSE Append(fs, row)

\* INSERT OR REPLACE INTO foods: a row with the same id (the primary key) is
\* deleted, the new row is added at the end of the table
InsertOrReplace(fs, row) == SelectSeq(fs, LAMBDA r : r.id # row.id) \o <<row>>

\* the loop of create_database: the rows inserted in input order
RECURSIVE InsertRows(_, _)
InsertRows(fs, dataset) ==
    IF dataset = <<>> THEN fs
    ELSE InsertRows(InsertOrReplace(fs, ImportedRow(Head(dataset))), Tail(dataset))

\* name TEXT NOT NULL: the INSERT of a row without a name raises
\* sqlite3.IntegrityError
InsertFails(row) == row.name = NullText

\* the statements create_database executes: CREATE TABLE, then one INSERT per
\* row up to the first that fails
RECURSIVE Statements(_)
Statements(dataset) ==
    IF dataset = <<>> THEN 1
    ELSE IF InsertFails(Head(dataset)) THEN 2
    ELSE 1 + Statements(Tail(dataset))

\* mutant of create_database: the table emptied before the rows are inserted
create_database_Emptying(fs, dataset) ==
    IF \E i \in 1..Len(dataset) : InsertFails(dataset[i]) THEN fs
    ELSE InsertRows(<<>>, dataset)

\* create_database: the rows of the dataset inserted in input order into the
\* table that is there (CREATE TABLE IF NOT EXISTS), then committed; when an
\* INSERT raises, nothing is committed and the table stays as it was
create_database(fs, dataset) ==
    IF \E i \in 1..Len(dataset) : InsertFails(dataset[i]) THEN fs
    ELSE InsertRows(fs, dataset)

\* A row of the dataset, all eleven columns.
DatasetRow(id, name, ean, labels, alts) ==
    [id |-> id, name |-> name, type |-> "everyday", ean_13 |-> ean,
     labels |-> labels, nutrition_100g |-> EmptyCell, alternate_names |-> alts,
     source |-> EmptyCell, serving |-> EmptyCell, package_size |-> EmptyCell,
     ingredient_analysis |-> EmptyCell]

\* The rows a dataset is made of: two rows with the same id, ids with and
\* without the usual prefix, a JSON value of each kind; a line of three
\* fields with an empty id, for which csv.DictReader gives None as ean_13 and
\* as every later column; a barcode of five characters; a line of one field,
\* for which the name is None as well.
DatasetRows ==
    { DatasetRow(RowId(1), <<"a", "b">>, Ean_A, JsonArray(<< <<"v">> >>), EmptyCell),
      DatasetRow(RowId(1), <<"c">>, EmptyText, JsonString(<<"h", "i">>),
                 JsonArray(<< <<"a">>, <<"B">> >>)),
      DatasetRow(<<"x", "1">>, <<"A">>, Ean_B, JsonBoolean(<<"true">>), GarbageCell),
      DatasetRow(RowId(2), <<"c">>, Ean_A, JsonNumber(<<"7">>),
                 JsonObject(<< <<"a">>, <<"b", "a">> >>)),
      DatasetRow(RowId(3), <<"b">>, EmptyText, JsonString(<<"1", "2">>), JsonNull),
      DatasetRow(EmptyText, <<"b">>, NullText, EmptyCell, EmptyCell),
      DatasetRow(RowId(2), <<"c">>, <<"1", "2", "3", "4", "5">>, EmptyCell, EmptyCell),
      DatasetRow(RowId(3), NullText, NullText, EmptyCell, EmptyCell) }

MaxDatasetRows == 2

Datasets == UNION { [1..n -> DatasetRows] : n \in 0..MaxDatasetRows }

(***************************************************************************)
(* db_adapter.py: FoodItem                                                 *)
(***************************************************************************)
\* SQLite json_extract(X, '$') on a well-formed X: NULL for null, the JSON
\* text itself for an array or an object, and for a scalar its SQL value: the
\* characters of a string without the quotes (TEXT), the number (INTEGER),
\* 1 or 0 for true or false
json_extract(text) ==
    CASE text.kind = "null" -> SqlNull
      [] text.kind = "string" -> [kind |-> "text", items |-> text.items]
      [] text.kind = "number" -> [kind |-> "integer", items |-> text.items]
      [] text.kind = "boolean" ->
            [kind |-> "integer",
             items |-> IF text.items = <<"true">> THEN <<"1">> ELSE <<"0">>]
      [] OTHER -> text

IsDigit(c) == c \in {"0", "1", "2", "3", "4", "5", "6", "7", "8", "9"}

\* json.loads of a text that came out of the quotes of a JSON string: digits
\* read as a number, the literals as their values, and every other text the
\* tables of this model hold raises JSONDecodeError (None)
json_loads_text(chars) ==
    IF \A i \in 1..Len(chars) : IsDigit(chars[i]) THEN PyInt(chars)
    ELSE IF chars \in { <<"t", "r", "u", "e">>, <<"f", "a", "l", "s", "e">> }
    THEN PyBool(IF Head(chars) = "t" THEN <<"true">> ELSE <<"false">>)
    ELSE PyNone

\* FoodItem._parse_json: a non-empty str goes through json.loads (None when
\* that raises), any other value is returned as it is
_parse_json(value) ==
    CASE value.kind \in {"NULL", "None"} -> PyNone
      [] value.kind = "array" -> PyList(value.items)
      [] value.kind = "object" -> PyDict(value.items)
      [] value.kind = "text" ->
            IF value.items = <<>> THEN PyStr(<<>>) ELSE json_loads_text(value.items)
      [] value.kind = "integer" -> PyInt(value.items)
      [] OTHER -> PyNone

\* SQLite raises "malformed JSON" when json_extract reads a text that is not JSON
SelectFails(food) == \E c \in NestedAttrs : food[c].kind = "invalid"

\* _get_food_item_select_clause: the result row of one table row
SelectRow(food) ==
    [id |-> food.id, name |-> food.name, type |-> food.type, ean_13 |-> food.ean_13,
     labels |-> json_extract(food.labels),
     nutrition_100g |-> json_extract(food.nutrition_100g),
     alternate_names |-> json_extract(food.alternate_names),
     source |-> json_extract(food.source),
     serving |-> json_extract(food.serving),
     package_size |-> json_extract(food.package_size),
     ingredient_analysis |-> json_extract(food.ingredient_analysis)]

\* mutant of OrEmpty: the column handed over as it is
OrEmpty_AsStored(value) == value

\* row['ean_13'] or "": the empty string for NULL and for the empty string
OrEmpty(value) == IF value = NullText \/ value = <<>> THEN <<>> ELSE value

\* FoodItem.__init__ followed by to_dict
FoodItemDict(row) ==
    [id |-> row.id, name |-> row.name, type |-> row.type,
     ean_13 |-> OrEmpty(row.ean_13),
     labels |-> _parse_json(row.labels),
     nutrition_100g |-> _parse_json(row.nutrition_100g),
     alternate_names |-> _parse_json(row.alternate_names),
     source |-> _parse_json(row.source),
     serving |-> _parse_json(row.serving),
     package_size |-> _parse_json(row.package_size),
     ingredient_analysis |-> _parse_json(row.ingredient_analysis)]

ToDicts(rows) == [i \in 1..Len(rows) |-> FoodItemDict(rows[i])]

QueryOk(rows) == [status |-> "ok", rows |-> rows, executed |-> 1]
QueryError == [status |-> "OperationalError", rows |-> <<>>, executed |-> 1]

(***************************************************************************)
(* db_adapter.py: SQLiteDBAdapter                                          *)
(***************************************************************************)
\* mutants of Offset: the page size forgotten; pages counted from zero; pages
\* before the first counted backwards
Offset_Unscaled(page, page_size) == page - 1
Offset_FromZero(page, page_size) == page * page_size
Offset_Mirrored(page, page_size) ==
    IF page < 1 THEN (1 - page) * page_size ELSE (page - 1) * page_size

\* offset = (page - 1) * page_size
Offset(page, page_size) == (page - 1) * page_size

\* terms = query.strip().split()
Terms(query) == Split(Strip(query))

\* search_term = f"%{term}%"
SearchTerm(term) == <<"%">> \o term \o <<"%">>

\* foods LEFT JOIN json_each(foods.alternate_names) AS alt ON 1 = 1, for one
\* table row: one joined row per element of the array (per member of the
\* object), one joined row holding the value of a scalar, or a single joined
\* row with alt.value NULL when there is no element.
AltValues(food) ==
    IF food.alternate_names.kind \in {"array", "object"}
       /\ food.alternate_names.items # <<>>
    THEN [i \in 1..Len(food.alternate_names.items) |->
            [null |-> FALSE, text |-> food.alternate_names.items[i]]]
    ELSE IF food.alternate_names.kind \in {"string", "number", "boolean"}
    THEN << [null |-> FALSE, text |-> json_extract(food.alternate_names).items] >>
    ELSE << [null |-> TRUE, text |-> <<>>] >>

\* json_each raises "malformed JSON" on a text that is not JSON
JoinFails(food) == food.alternate_names.kind = "invalid"

\* (LOWER(foods.name) LIKE LOWER(?) OR LOWER(alt.value) LIKE LOWER(?)), true or
\* not true under SQL's three-valued logic (LIKE on a NULL is NULL)
TermClause(food, alt, term) ==
    \/ SqlLike(SqlLower(food.name), SqlLower(SearchTerm(term)))
    \/ /\ ~alt.null
       /\ SqlLike(SqlLower(alt.text), SqlLower(SearchTerm(term)))

\* where_clause = " AND ".join(where_clauses), evaluated on one joined row
WhereClause(food, alt, terms) ==
    \A t \in 1..Len(terms) : TermClause(food, alt, terms[t])

\* mutant of IsDuplicate: SELECT without DISTINCT
IsDuplicate_Never(row, seen) == FALSE

\* SELECT DISTINCT: a result row equal to one already produced is dropped
IsDuplicate(row, seen) == row \in seen

\* The statement of search_by_name as SQLite runs it: the table is scanned in
\* rowid order, each row is joined with its alternate names, the joined rows
\* that pass WHERE are projected, deduplicated, skipped while OFFSET lasts and
\* returned until LIMIT rows are out.  i is the table row, j the joined row.
RECURSIVE SearchScan(_, _, _, _, _, _, _, _)
SearchScan(fs, i, j, terms, limit, offset, seen, out) ==
    IF limit = 0 \/ i > Len(fs) THEN QueryOk(out)
    ELSE IF JoinFails(fs[i]) THEN QueryError
    ELSE LET alts == AltValues(fs[i])
             row == SelectRow(fs[i])
         IN  IF j > Len(alts)
             THEN SearchScan(fs, i + 1, 1, terms, limit, offset, seen, out)
             ELSE IF ~WhereClause(fs[i], alts[j], terms)
             THEN SearchScan(fs, i, j + 1, terms, limit, offset, seen, out)
             ELSE IF SelectFails(fs[i]) THEN QueryError
             ELSE IF IsDuplicate(row, seen)
             THEN SearchScan(fs, i, j + 1, terms, limit, offset, seen, out)
             ELSE IF offset > 0
             THEN SearchScan(fs, i, j + 1, terms, limit, offset - 1,
                             seen \cup {row}, out)
             ELSE IF limit > 0 /\ Len(out) + 1 = limit
             THEN QueryOk(Append(out, row))
             ELSE SearchScan(fs, i, j + 1, terms, limit, offset,
                             seen \cup {row}, Append(out, row))

\* search_by_name: with no term the WHERE clause is empty and the statement
\* "... WHERE  LIMIT ? OFFSET ?" does not compile (sqlite3.OperationalError)
search_by_name(fs, query, page, page_size) ==
    IF Terms(query) = <<>> THEN QueryError
    ELSE LET res == SearchScan(fs, 1, 1, Terms(query), page_size,
                               Offset(page, page_size), {}, <<>>)
         IN  [res EXCEPT !.rows = ToDicts(res.rows)]

\* SELECT ... FROM foods LIMIT ? OFFSET ?: rows inside the OFFSET are skipped
\* before their columns are computed
RECURSIVE ListScan(_, _, _, _, _)
ListScan(fs, i, limit, offset, out) ==
    IF limit = 0 \/ i > Len(fs) THEN QueryOk(out)
    ELSE IF offset > 0 THEN ListScan(fs, i + 1, limit, offset - 1, out)
    ELSE IF SelectFails(fs[i]) THEN QueryError
    ELSE IF limit > 0 /\ Len(out) + 1 = limit
         THEN QueryOk(Append(out, SelectRow(fs[i])))
    ELSE ListScan(fs, i + 1, limit, offset, Append(out, SelectRow(fs[i])))

\* get_all
get_all(fs, page, page_size) ==
    LET res == ListScan(fs, 1, page_size, Offset(page, page_size), <<>>)
    IN  [res EXCEPT !.rows = ToDicts(res.rows)]

\* mutants of Executed: a statement that deletes the first row it read; a
\* statement that leaves the table without its last row
Executed_DeletingFirst(fs, n) == IF n > 0 /\ fs # <<>> THEN Tail(fs) ELSE fs
Executed_DeletingLast(fs, n) ==
    IF n > 0 /\ fs # <<>> THEN SubSeq(fs, 1, Len(fs) - 1) ELSE fs

\* The table after the n statements of a call were executed on it.  Each of
\* the four methods executes SELECT statements only and never commits: the
\* table is left as it was.
Executed(fs, n) == fs

\* mutant of SqlEquals: the column compared with LIKE
SqlEquals_Like(stored, value) == SqlLike(stored, value)

\* <column> = ? on a TEXT column with the default (BINARY) collation: the two
\* texts are the same, character by character; NULL equals nothing
SqlEquals(stored, value) == stored # NullText /\ stored = value

\* the table rows, in scan order, whose column equals the parameter
RECURSIVE RowsWhere(_, _, _)
RowsWhere(fs, column, value) ==
    IF fs = <<>> THEN <<>>
    ELSE IF SqlEquals(Head(fs)[column], value)
         THEN <<Head(fs)>> \o RowsWhere(Tail(fs), column, value)
         ELSE RowsWhere(Tail(fs), column, value)

\* cursor.fetchone() of SELECT ... WHERE <column> = ?: the first matching row;
\* the sqlite3 cursor steps the statement once more before it hands the row
\* over, so the columns of a second matching row are computed as well
FirstWhere(fs, column, value) ==
    LET found == RowsWhere(fs, column, value)
    IN  IF found = <<>> THEN QueryOk(<<>>)
        ELSE IF SelectFails(found[1]) THEN QueryError
        ELSE IF Len(found) >= 2 /\ SelectFails(found[2]) THEN QueryError
        ELSE QueryOk(<< FoodItemDict(SelectRow(found[1])) >>)

\* get_by_id: WHERE id = ?
get_by_id(fs, food_id) == FirstWhere(fs, "id", food_id)

\* get_by_ean13: WHERE ean_13 = ?
get_by_ean13(fs, ean_13) == FirstWhere(fs, "ean_13", ean_13)

(***************************************************************************)
(* Tool results.  shape tells a list of records from a single record, an   *)
(* empty object {} and, for the legacy dispatcher, the json.dumps texts.   *)
(***************************************************************************)
Result(status, shape, records, n) ==
    [status |-> status, shape |-> shape, records |-> records, executed |-> n]

ValidationError == Result("ValueError", "none", <<>>, 0)

\* mutant of Raised: the exception caught and an empty list returned
Raised_AsEmpty(res) == Result("ok", "list", <<>>, res.executed)

\* an exception of the adapter leaves the tool unchanged
Raised(res) == Result(res.status, "none", <<>>, res.executed)

FdPrefix == <<"f", "d", "_">>
EanLength == 13

\* mutant of WrongLength: only a barcode that is too long is refused
WrongLength_TooLongOnly(ean_13) == Len(ean_13) > EanLength

\* len(ean_13) != 13
WrongLength(ean_13) == Len(ean_13) # EanLength
DefaultPage == 1
DefaultPageSize == 5

(***************************************************************************)
(* server.py: the FastMCP tools                                            *)
(***************************************************************************)
search_food_by_name(fs, query, page, page_size) ==
    LET res == search_by_name(fs, query, page, page_size)
    IN  IF res.status = "ok" THEN Result("ok", "list", res.rows, res.executed)
        ELSE Raised(res)

get_foods(fs, page, page_size) ==
    LET res == get_all(fs, page, page_size)
    IN  IF res.status = "ok" THEN Result("ok", "list", res.rows, res.executed)
        ELSE Raised(res)

\* mutant of ObjectOrEmpty: a lookup that found nothing is run a second time
ObjectOrEmpty_Retried(res) ==
    IF res.status # "ok" THEN Raised(res)
    ELSE IF res.rows = <<>> THEN Result("ok", "empty_object", <<>>, res.executed + 1)
    ELSE Result("ok", "object", res.rows, res.executed)

\* return result if result else {}
ObjectOrEmpty(res) ==
    IF res.status # "ok" THEN Raised(res)
    ELSE IF res.rows = <<>> THEN Result("ok", "empty_object", <<>>, res.executed)
    ELSE Result("ok", "object", res.rows, res.executed)

get_food_by_id(fs, id) ==
    IF ~IsPrefix(FdPrefix, id) THEN ValidationError
    ELSE ObjectOrEmpty(get_by_id(fs, id))

get_food_by_ean13(fs, ean_13) ==
    IF WrongLength(ean_13) THEN ValidationError
    ELSE ObjectOrEmpty(get_by_ean13(fs, ean_13))

HasArg(arguments, key) == key \in DOMAIN arguments

\* arguments.get(key, default) for the integer arguments; for a FastMCP tool,
\* the parameter's default when the call does not name it
GetInt(arguments, key, default) ==
    IF HasArg(arguments, key) THEN arguments[key] ELSE default

\* the defaults in the signatures of search_food_by_name and get_foods
FastDefaultPage == 1
FastDefaultPageSize == 1

\* FastMCP refuses a call that leaves out a parameter without a default: the
\* arguments do not validate against the signature and the function is not run
MissingArgument == Result("ValidationError", "none", <<>>, 0)

\* A call of a tool of the FastMCP server: the arguments are bound by name to
\* the parameters of the decorated function (query, page, page_size, id,
\* ean_13); an argument that names no parameter is dropped, a parameter that
\* is not named takes its default.
run_tool(fs, name, arguments) ==
    IF name = "search-food-by-name"
    THEN IF ~HasArg(arguments, "query") THEN MissingArgument
         ELSE search_food_by_name(fs, arguments.query,
                                  GetInt(arguments, "page", FastDefaultPage),
                                  GetInt(arguments, "page_size", FastDefaultPageSize))
    ELSE IF name = "get-foods"
    THEN get_foods(fs, GetInt(arguments, "page", FastDefaultPage),
                   GetInt(arguments, "page_size", FastDefaultPageSize))
    ELSE IF name = "get-food-by-id"
    THEN IF ~HasArg(arguments, "id") THEN MissingArgument
         ELSE get_food_by_id(fs, arguments.id)
    ELSE IF ~HasArg(arguments, "ean_13") THEN MissingArgument
         ELSE get_food_by_ean13(fs, arguments.ean_13)

\* FastMCP raises an error of its own for a name no tool is registered under
UnknownTool == Result("ToolError", "none", <<>>, 0)

\* a tools/call request to the FastMCP server whose registry is registry
call_tool_by_name(registry, fs, name, arguments) ==
    IF name \in registry THEN run_tool(fs, name, arguments) ELSE UnknownTool

\* the names server.py registers its four functions under when it is loaded
\* (@mcp.tool(name=...)), which are the names list_tools of the legacy server
\* returns
ToolNames == {"search-food-by-name", "get-foods", "get-food-by-id", "get-food-by-ean13"}

\* the names of the four functions themselves
FunctionNames == {"search_food_by_name", "get_foods", "get_food_by_id", "get_food_by_ean13"}

DefaultHost == "127.0.0.1"
DefaultPort == 8000

\* main(): with a host or a port other than the default a new FastMCP is made
\* and the four functions are registered on it with mcp.tool()(function),
\* which names each tool after its function; otherwise the registry made at
\* load time is served
main(registry, transport, host, port) ==
    IF host # DefaultHost \/ port # DefaultPort THEN FunctionNames ELSE registry

(***************************************************************************)
(* server_old.py: the legacy dispatcher call_tool                          *)
(***************************************************************************)

\* "not value" for value = arguments.get(key): absent (None) or the empty string
NotGiven(arguments, key) == ~HasArg(arguments, key) \/ arguments[key] = <<>>

\* json.dumps(foods, indent=2) of a list
DumpList(res) ==
    IF res.status = "ok" THEN Result("ok", "json_list", res.rows, res.executed)
    ELSE Raised(res)

\* json.dumps(food, indent=2) of a record or of None
DumpObject(res) ==
    IF res.status # "ok" THEN Raised(res)
    ELSE IF res.rows = <<>> THEN Result("ok", "json_null", <<>>, res.executed)
    ELSE Result("ok", "json_object", res.rows, res.executed)

\* mutant of UnknownLegacyTool: a name that matches no branch served as a listing
UnknownLegacyTool_ListsFoods(fs, name, arguments) ==
    DumpList(get_all(fs, DefaultPage, DefaultPageSize))

\* the else branch of call_tool: raise ValueError(f"Unknown tool: {name}")
UnknownLegacyTool(fs, name, arguments) == ValidationError

call_tool(fs, name, arguments) ==
    IF name = "search-food-by-name"
    THEN IF NotGiven(arguments, "query") THEN ValidationError
         ELSE DumpList(search_by_name(fs, arguments.query,
                                      GetInt(arguments, "page", DefaultPage),
                                      GetInt(arguments, "pageSize", DefaultPageSize)))
    ELSE IF name = "get-foods"
    THEN DumpList(get_all(fs, GetInt(arguments, "page", DefaultPage),
                          GetInt(arguments, "pageSize", DefaultPageSize)))
    ELSE IF name = "get-food-by-id"
    THEN IF NotGiven(arguments, "id") THEN ValidationError
         ELSE IF ~IsPrefix(FdPrefix, arguments.id) THEN ValidationError
         ELSE DumpObject(get_by_id(fs, arguments.id))
    ELSE IF name = "get-food-by-ean13"
    THEN IF NotGiven(arguments, "ean_13") THEN ValidationError
         ELSE IF WrongLength(arguments.ean_13) THEN ValidationError
         ELSE DumpObject(get_by_ean13(fs, arguments.ean_13))
    ELSE UnknownLegacyTool(fs, name, arguments)

\* The handler a request is dispatched to: the tool registered under its name
\* on the FastMCP server, call_tool on the legacy server.
Serve(fs, req) ==
    IF req.server = "legacy" THEN call_tool(fs, req.name, req.arguments)
    ELSE run_tool(fs, req.name, req.arguments)

\* tools/list: the FastMCP server lists its registry, the legacy server the
\* four tools list_tools spells out
list_tools(registry, server) == IF server = "fastmcp" THEN registry ELSE ToolNames

(***************************************************************************)
(* The calls the model makes.                                              *)
(***************************************************************************)
Queries ==
    { <<>>, <<" ">>, <<"A">>, <<"b">>, <<"a", "b">>, <<" ", "a", " ", "b">>,
      <<"_">>, <<"%">>, <<"d">> }

\* page numbers, those below the first page among them
Pages == (-1)..MaxPage
PageSizes == 1..MaxPageSize

IdArgs ==
    { RowId(i) : i \in 1..(MaxRows + 1) }
        \cup { <<>>, <<"f", "d">>, <<"x", "d", "_", "1">>, <<"1", "f", "d", "_">> }

Ean_C == <<"9", "7", "8", "0", "0", "0", "0", "0", "0", "0", "0", "0", "2">>

\* thirteen characters that are Ean_A but for the last one
Ean_D == <<"4", "0", "0", "6", "3", "8", "1", "3", "3", "3", "9", "3", "_">>

EanArgs ==
    { Ean_A, Ean_B, Ean_C, Ean_D, <<>>, <<"1", "2", "3", "4", "5">>, Ean_A \o <<"0">> }

NoArgs == [k \in {} |-> 0]

\* the argument objects sent to the legacy dispatcher, per tool
LegacyArgs(name) ==
    IF name = "search-food-by-name"
    THEN { [query |-> q, page |-> p, pageSize |-> k] :
              q \in Queries, p \in Pages, k \in PageSizes }
         \cup { [query |-> q] : q \in Queries }
         \cup { [page |-> p, pageSize |-> k] : p \in Pages, k \in PageSizes }
    ELSE IF name = "get-foods"
    THEN { [page |-> p, pageSize |-> k] : p \in Pages, k \in PageSizes }
         \cup { [page |-> 1, page_size |-> k] : k \in PageSizes }
         \cup { [page |-> p] : p \in Pages } \cup { NoArgs }
    ELSE IF name = "get-food-by-id"
    THEN { [id |-> i] : i \in IdArgs } \cup { NoArgs }
    ELSE IF name = "get-food-by-ean13"
    THEN { [ean_13 |-> e] : e \in EanArgs } \cup { NoArgs }
    ELSE { NoArgs }

\* the argument objects sent to the FastMCP server, per tool
FastArgs(name) ==
    IF name = "search-food-by-name"
    THEN { [query |-> q, page |-> p, page_size |-> k] :
              q \in Queries, p \in Pages, k \in PageSizes }
         \cup { [query |-> q] : q \in Queries } \cup { NoArgs }
    ELSE IF name = "get-foods"
    THEN { [page |-> p, page_size |-> k] : p \in Pages, k \in PageSizes }
         \cup { [page |-> 1, pageSize |-> k] : k \in PageSizes }
         \cup { [page |-> p] : p \in Pages } \cup { NoArgs }
    ELSE IF name = "get-food-by-id"
    THEN { [id |-> i] : i \in IdArgs } \cup { NoArgs }
    ELSE { [ean_13 |-> e] : e \in EanArgs } \cup { NoArgs }

NoRequest == [server |-> "none", name |-> "none", arguments |-> NoArgs]

\* the callers of the server when calls overlap, and what each of them has
\* in flight: nothing ("idle"), a call sent and not yet taken up ("issued"),
\* a call whose handler is executing ("running"), or a result ("returned")
MaxCallers == 2
Callers == 1..MaxCallers
NoCall == [state |-> "idle", request |-> NoRequest, response |-> Result("none", "none", <<>>, 0)]
NoCalls == [c \in Callers |-> NoCall]
NoResponse == Result("none", "none", <<>>, 0)

(***************************************************************************)
(* The state machine: a store left by the importer, and a server that      *)
(* takes one call at a time, runs its handler and hands the result back.   *)
(***************************************************************************)
Init ==
    /\ foods \in Stores
    /\ pc = "idle"
    /\ request = NoRequest
    /\ response = NoResponse
    /\ executed = 0
    /\ tools = ToolNames
    /\ calls = NoCalls

\* the handler ran: its request, its outcome, the statements it executed and
\* the table they leave
Handled(server, name, arguments, res) ==
    /\ request' = [server |-> server, name |-> name, arguments |-> arguments]
    /\ response' = res
    /\ executed' = res.executed
    /\ foods' = Executed(foods, res.executed)
    /\ UNCHANGED <<tools, calls>>

SearchFoodByName ==
    /\ pc = "idle"
    /\ \E arguments \in FastArgs("search-food-by-name") :
          Handled("fastmcp", "search-food-by-name", arguments,
                  call_tool_by_name(tools, foods, "search-food-by-name", arguments))
    /\ pc' = "responded"

GetFoods ==
    /\ pc = "idle"
    /\ \E arguments \in FastArgs("get-foods") :
          Handled("fastmcp", "get-foods", arguments,
                  call_tool_by_name(tools, foods, "get-foods", arguments))
    /\ pc' = "responded"

GetFoodById ==
    /\ pc = "idle"
    /\ \E arguments \in FastArgs("get-food-by-id") :
          Handled("fastmcp", "get-food-by-id", arguments,
                  call_tool_by_name(tools, foods, "get-food-by-id", arguments))
    /\ pc' = "responded"

GetFoodByEan13 ==
    /\ pc = "idle"
    /\ \E arguments \in FastArgs("get-food-by-ean13") :
          Handled("fastmcp", "get-food-by-ean13", arguments,
                  call_tool_by_name(tools, foods, "get-food-by-ean13", arguments))
    /\ pc' = "responded"

CallTool ==
    /\ pc = "idle"
    /\ \E name \in ToolNames \cup {"get-food"} :
          \E arguments \in LegacyArgs(name) :
              Handled("legacy", name, arguments, call_tool(foods, name, arguments))
    /\ pc' = "responded"

ListTools ==
    /\ pc = "idle"
    /\ \E server \in {"fastmcp", "legacy"} :
          /\ request' = [server |-> server, name |-> "tools/list", arguments |-> NoArgs]
          /\ response' = Result("ok", "tools", list_tools(tools, server), 0)
    /\ executed' = 0
    /\ pc' = "responded"
    /\ UNCHANGED <<foods, tools, calls>>

\* the dispatcher sends the result and waits for the next call
Respond ==
    /\ pc = "responded"
    /\ pc' = "idle"
    /\ request' = NoRequest
    /\ response' = NoResponse
    /\ executed' = 0
    /\ UNCHANGED <<foods, tools, calls>>

Next ==
    \/ SearchFoodByName
    \/ GetFoods
    \/ GetFoodById
    \/ GetFoodByEan13
    \/ CallTool
    \/ ListTools
    \/ Respond

Spec == Init /\ [][Next]_vars

(***************************************************************************)
(* A store in which the text of one nested attribute of one record is not  *)
(* JSON (the importer never writes one; a table edited by hand can hold    *)
(* one), served by the same handlers.                                      *)
(***************************************************************************)
MaxCorruptRows == 2

\* the attributes whose text is made malformed: the first and the last the
\* SELECT clause extracts, and the one the search joins on
CorruptibleAttrs == {"labels", "alternate_names", "ingredient_analysis"}

CorruptStores ==
    { [s EXCEPT ![i] = [s[i] EXCEPT ![c] = JsonInvalid]] :
        <<s, i, c>> \in { t \in Stores \X (1..MaxCorruptRows) \X CorruptibleAttrs :
                            Len(t[1]) <= MaxCorruptRows /\ t[2] <= Len(t[1]) } }

InitCorrupt ==
    /\ foods \in CorruptStores
    /\ pc = "idle"
    /\ request = NoRequest
    /\ response = NoResponse
    /\ executed = 0
    /\ tools = ToolNames
    /\ calls = NoCalls

SpecCorrupt == InitCorrupt /\ [][Next]_vars

(***************************************************************************)
(* The importer run on a dataset, and the servers serving the store it     *)
(* leaves.                                                                 *)
(***************************************************************************)
\* a run of the importer on the database file that is there
Imported ==
    /\ \E dataset \in Datasets :
          /\ request' = [server |-> "importer", name |-> "create_database",
                         arguments |-> [dataset |-> dataset]]
          /\ foods' = create_database(foods, dataset)
          /\ executed' = Statements(dataset)
          /\ response' = Result(IF \E i \in 1..Len(dataset) : InsertFails(dataset[i])
                                THEN "IntegrityError" ELSE "ok",
                                "none", <<>>, Statements(dataset))
    /\ pc' = "responded"
    /\ UNCHANGED <<tools, calls>>

\* the importer run where no table holds a row yet
CreateDatabase == pc = "idle" /\ foods = <<>> /\ Imported

InitImport ==
    /\ foods = <<>>
    /\ pc = "idle"
    /\ request = NoRequest
    /\ response = NoResponse
    /\ executed = 0
    /\ tools = ToolNames
    /\ calls = NoCalls

NextImport == CreateDatabase \/ Next

SpecImport == InitImport /\ [][NextImport]_vars

(***************************************************************************)
(* The importer run again and again on the database file of its earlier    *)
(* runs (the script neither deletes the file nor empties the table).       *)
(***************************************************************************)
\* the rows the table holds at most when the importer is run again
MaxExistingRows == 2

CreateDatabaseAgain ==
    pc = "idle" /\ foods # <<>> /\ Len(foods) <= MaxExistingRows /\ Imported

NextReimport == CreateDatabase \/ CreateDatabaseAgain \/ Respond

SpecReimport == InitImport /\ [][NextReimport]_vars

(***************************************************************************)
(* The FastMCP server started from the command line: server.py is loaded,  *)
(* main() reads --transport, --host and --port, and the server runs.       *)
(***************************************************************************)
Transports == {"stdio", "sse", "streamable-http"}
Hosts == {DefaultHost, "0.0.0.0"}
Ports == {DefaultPort, 9000}

Main ==
    /\ pc = "start"
    /\ \E transport \in Transports, host \in Hosts, port \in Ports :
          /\ request' = [server |-> "fastmcp", name |-> "main",
                         arguments |-> [transport |-> transport, host |-> host,
                                        port |-> port]]
          /\ tools' = main(tools, transport, host, port)
    /\ response' = Result("ok", "none", <<>>, 0)
    /\ executed' = 0
    /\ pc' = "responded"
    /\ UNCHANGED <<foods, calls>>

InitStartup ==
    /\ foods \in Stores
    /\ pc = "start"
    /\ request = NoRequest
    /\ response = NoResponse
    /\ executed = 0
    /\ tools = ToolNames
    /\ calls = NoCalls

NextStartup == Main \/ Next

SpecStartup == InitStartup /\ [][NextStartup]_vars

(***************************************************************************)
(* Calls that overlap.  Both servers answer on one event loop: the tools   *)
(* of server.py are plain functions and call_tool has no await, so the     *)
(* loop's thread runs a handler from its first line to its return before   *)
(* it takes up the next call, and every statement goes through the one     *)
(* connection of the module-level adapter db.                              *)
(***************************************************************************)
\* the calls that are sent while others are in flight
ConcurrentCalls ==
    { [server |-> "fastmcp", name |-> "get-foods",
       arguments |-> [page |-> 1, page_size |-> 2]],
      [server |-> "fastmcp", name |-> "search-food-by-name",
       arguments |-> [query |-> <<"A">>, page |-> 1, page_size |-> 2]],
      [server |-> "fastmcp", name |-> "get-food-by-id", arguments |-> [id |-> RowId(1)]],
      [server |-> "legacy", name |-> "get-food-by-ean13", arguments |-> [ean_13 |-> Ean_A]] }

\* a caller sends a call
IssueCall ==
    /\ \E c \in Callers :
          /\ calls[c].state = "idle"
          /\ \E req \in ConcurrentCalls :
                calls' = [calls EXCEPT ![c] = [NoCall EXCEPT !.state = "issued",
                                                            !.request = req]]
    /\ UNCHANGED <<foods, pc, request, response, executed, tools>>

\* the event loop takes up a call and enters its handler; it does so when
\* the handler it was running has returned
EnterHandler ==
    /\ \E c \in Callers :
          /\ calls[c].state = "issued"
          /\ \A d \in Callers : calls[d].state # "running"
          /\ calls' = [calls EXCEPT ![c].state = "running"]
    /\ UNCHANGED <<foods, pc, request, response, executed, tools>>

\* the handler executes its statement on the connection and returns
ReturnResult ==
    /\ \E c \in Callers :
          /\ calls[c].state = "running"
          /\ LET res == Serve(foods, calls[c].request)
             IN  /\ calls' = [calls EXCEPT ![c].state = "returned", ![c].response = res]
                 /\ foods' = Executed(foods, res.executed)
    /\ UNCHANGED <<pc, request, response, executed, tools>>

\* the result is sent to the caller
DeliverResult ==
    /\ \E c \in Callers :
          /\ calls[c].state = "returned"
          /\ calls' = [calls EXCEPT ![c] = NoCall]
    /\ UNCHANGED <<foods, pc, request, response, executed, tools>>

InitConcurrent ==
    /\ foods \in Stores
    /\ pc = "idle"
    /\ request = NoRequest
    /\ response = NoResponse
    /\ executed = 0
    /\ tools = ToolNames
    /\ calls = NoCalls

NextConcurrent == IssueCall \/ EnterHandler \/ ReturnResult \/ DeliverResult

SpecConcurrent == InitConcurrent /\ [][NextConcurrent]_vars

(***************************************************************************)
(* Vocabulary of the properties.                                           *)
(***************************************************************************)
Responded(name) == pc = "responded" /\ request.name = name

\* the request carries a page and a page size
HasPaging ==
    /\ HasArg(request.arguments, "page")
    /\ IF request.server = "fastmcp" THEN HasArg(request.arguments, "page_size")
       ELSE HasArg(request.arguments, "pageSize")
ReqPage == request.arguments.page
ReqPageSize ==
    IF request.server = "fastmcp" THEN request.arguments.page_size
    ELSE request.arguments.pageSize

\* the paging arguments the request carries, if any, are in the range the
\* operations are specified for (page >= 1, pageSize >= 1)
PagingInRange ==
    /\ HasArg(request.arguments, "page") => request.arguments.page >= 1
    /\ HasArg(request.arguments, "page_size") => request.arguments.page_size >= 1
    /\ HasArg(request.arguments, "pageSize") => request.arguments.pageSize >= 1

CaseFoldChar(c) == CASE c = "A" -> "a" [] c = "B" -> "b" [] c = "C" -> "c" [] OTHER -> c
CaseFold(s) == [i \in 1..Len(s) |-> CaseFoldChar(s[i])]

\* term is a case-insensitive substring of name or of one of the names in alts
TermIn(term, name, alts) ==
    \/ Contains(CaseFold(name), CaseFold(term))
    \/ \E a \in 1..Len(alts) : Contains(CaseFold(alts[a]), CaseFold(term))

\* the whitespace-separated terms of a query
Words(query) == Split(query)

EveryTermIn(query, name, alts) ==
    \A t \in 1..Len(Words(query)) : TermIn(Words(query)[t], name, alts)

\* the alternate names of a stored row and of a returned record
StoredAlts(food) ==
    IF food.alternate_names.kind = "array" THEN food.alternate_names.items ELSE <<>>
ReturnedAlts(rec) ==
    IF rec.alternate_names.kind = "list" THEN rec.alternate_names.items ELSE <<>>

IdsOf(records) == { records[i].id : i \in 1..Len(records) }

\* the ids on all the pages of a search, at page size k
AllPagesIds(fs, query, k) ==
    UNION { IdsOf(search_by_name(fs, query, p, k).rows) : p \in 1..(Len(fs) + 1) }

HasWildcard(query) == \E i \in 1..Len(query) : query[i] \in {"%", "_"}
Blank(query) == \A i \in 1..Len(query) : IsSpace(query[i])

Min(a, b) == IF a <= b THEN a ELSE b
Max(a, b) == IF a >= b THEN a ELSE b

(***************************************************************************)
(* C1..C5: search                                                          *)
(***************************************************************************)
\* C1: a record is on some page of search_by_name(query) if and only if every
\* whitespace-separated term of the query is a case-insensitive substring of
\* its name or of at least one of its alternate names, different terms being
\* free to sit in different alternate names.  Stated for the queries that
\* have a term and no LIKE wildcard, where C2 and C3 play no part.
C1_MatchingSetIsEveryTermSomewhere ==
    (Responded("search-food-by-name") /\ HasArg(request.arguments, "query")
        /\ PagingInRange
        /\ ~Blank(request.arguments.query) /\ ~HasWildcard(request.arguments.query))
    => \A i \in 1..Len(foods) : \A k \in PageSizes :
          (foods[i].id \in AllPagesIds(foods, request.arguments.query, k))
              <=> EveryTermIn(request.arguments.query, foods[i].name, StoredAlts(foods[i]))

\* C2: every record search-food-by-name returns holds each term of the query,
\* taken literally (% and _ included), as a case-insensitive substring of its
\* name or of one of its alternate names.
C2_ReturnedRecordsHoldTermsLiterally ==
    (Responded("search-food-by-name") /\ response.status = "ok" /\ PagingInRange)
    => \A r \in 1..Len(response.records) : \A t \in 1..Len(Words(request.arguments.query)) :
          TermIn(Words(request.arguments.query)[t], response.records[r].name,
                 ReturnedAlts(response.records[r]))

\* C3: search_by_name called with an empty or whitespace-only query does not
\* fail and returns the records get_all returns for the same page and size.
C3_BlankQueryListsCatalog ==
    (Responded("search-food-by-name") /\ executed = 1 /\ HasPaging
        /\ ReqPage >= 1 /\ ReqPageSize >= 1 /\ Blank(request.arguments.query))
    => /\ response.status = "ok"
       /\ response.records = get_all(foods, ReqPage, ReqPageSize).rows

\* C4: no page returned by search_by_name holds two records with the same id.
C4_NoDuplicateIdOnAPage ==
    (Responded("search-food-by-name") /\ response.status = "ok")
    => \A i, j \in 1..Len(response.records) :
          i # j => response.records[i].id # response.records[j].id

\* C4 witness: a page of two records, one of them a record whose name and two
\* alternate names all match the term.
C4_Witness ==
    /\ Responded("search-food-by-name") /\ response.status = "ok"
    /\ Len(response.records) = 2
    /\ \E r \in 1..2 :
          /\ Len(ReturnedAlts(response.records[r])) = 2
          /\ Contains(CaseFold(response.records[r].name), CaseFold(request.arguments.query))
          /\ \A a \in 1..2 : Contains(CaseFold(ReturnedAlts(response.records[r])[a]),
                                      CaseFold(request.arguments.query))

\* C5: for a query and a page size k >= 1, the page a search-food-by-name
\* call returns for page p >= 1 shares no id with the page the same call
\* returns for any other page p2 >= 1 on the same store (stated for p2 > p:
\* the pair with p2 < p is the pair seen from the call for page p2).
C5_PagesAreDisjoint ==
    (Responded("search-food-by-name") /\ response.status = "ok" /\ HasPaging
        /\ ReqPage >= 1 /\ ReqPageSize >= 1 /\ response.records # <<>>)
    => \A p2 \in (ReqPage + 1)..(MaxPage + 1) :
          IdsOf(response.records)
             \cap IdsOf(Serve(foods, [request EXCEPT !.arguments.page = p2]).records)
             = {}

\* C5 witness: a page of two records was returned and another page of the same
\* search is not empty.
C5_Witness ==
    /\ Responded("search-food-by-name") /\ response.status = "ok" /\ HasPaging
    /\ ReqPage >= 1 /\ Len(response.records) = 2
    /\ \E p2 \in (ReqPage + 1)..(MaxPage + 1) :
          Serve(foods, [request EXCEPT !.arguments.page = p2]).records # <<>>

(***************************************************************************)
(* C6: listing                                                             *)
(***************************************************************************)
\* C6: on a store of N records, get_all(page, pageSize) with page >= 1 and
\* pageSize >= 1 returns exactly min(pageSize, max(0, N - (page-1)*pageSize))
\* records.
C6_GetAllPageLength ==
    (Responded("get-foods") /\ HasPaging /\ ReqPage >= 1 /\ ReqPageSize >= 1)
    => /\ response.status = "ok"
       /\ Len(response.records)
            = Min(ReqPageSize, Max(0, Len(foods) - (ReqPage - 1) * ReqPageSize))

\* C6 witness: a last page that is shorter than the page size and not empty.
C6_Witness ==
    /\ Responded("get-foods") /\ HasPaging /\ ReqPage >= 2
    /\ response.status = "ok"
    /\ Len(response.records) >= 1
    /\ Len(response.records) < ReqPageSize

(***************************************************************************)
(* C7..C10: validation, lookups that find nothing, malformed stored text   *)
(***************************************************************************)
StartsWithFd(id) == Len(id) >= 3 /\ id[1] = "f" /\ id[2] = "d" /\ id[3] = "_"

\* C7: a get-food-by-id call whose id does not start with "fd_" ends in a
\* validation error and executes no statement on the store, on the FastMCP
\* server and on the legacy dispatcher.
C7_UnprefixedIdRejectedBeforeQuery ==
    (Responded("get-food-by-id") /\ HasArg(request.arguments, "id")
        /\ ~StartsWithFd(request.arguments.id))
    => response.status = "ValueError" /\ executed = 0

\* C7 witness: the legacy dispatcher refused a non-empty id that holds "fd_"
\* but does not start with it.
C7_Witness ==
    /\ Responded("get-food-by-id") /\ request.server = "legacy"
    /\ HasArg(request.arguments, "id")
    /\ request.arguments.id = <<"1", "f", "d", "_">>
    /\ response.status = "ValueError" /\ executed = 0

\* C8: a get-food-by-ean13 call whose ean_13 is not 13 characters long ends in
\* a validation error and executes no statement on the store, on the FastMCP
\* server and on the legacy dispatcher.
C8_WrongLengthEanRejectedBeforeQuery ==
    (Responded("get-food-by-ean13") /\ HasArg(request.arguments, "ean_13")
        /\ Len(request.arguments.ean_13) # 13)
    => response.status = "ValueError" /\ executed = 0

\* C8 witness: the FastMCP tool refused a barcode of 14 characters.
C8_Witness ==
    /\ Responded("get-food-by-ean13") /\ request.server = "fastmcp"
    /\ HasArg(request.arguments, "ean_13")
    /\ Len(request.arguments.ean_13) = 14
    /\ response.status = "ValueError" /\ executed = 0

\* the request passed validation and no stored record answers it
MatchesNoRecord ==
    IF request.name = "get-food-by-id"
    THEN HasArg(request.arguments, "id")
         /\ \A i \in 1..Len(foods) : foods[i].id # request.arguments.id
    ELSE IF request.name = "get-food-by-ean13"
    THEN HasArg(request.arguments, "ean_13")
         /\ \A i \in 1..Len(foods) : foods[i].ean_13 # request.arguments.ean_13
    ELSE IF request.name = "search-food-by-name"
    THEN HasArg(request.arguments, "query")
         /\ \A i \in 1..Len(foods) :
               ~EveryTermIn(request.arguments.query, foods[i].name, StoredAlts(foods[i]))
    ELSE HasPaging /\ ReqPage >= 1 /\ ReqPageSize >= 1
         /\ Len(foods) <= (ReqPage - 1) * ReqPageSize

\* C9: a lookup that passes validation and matches no record is no error:
\* the point lookups return an empty object (null from the legacy
\* dispatcher), the search and the listing return an empty list.
C9_NothingFoundIsEmptyNotError ==
    (pc = "responded" /\ request.name \in ToolNames /\ PagingInRange
        /\ response.status # "ValueError" /\ MatchesNoRecord)
    => /\ response.status = "ok"
       /\ response.records = <<>>
       /\ response.shape \in
            (IF request.name \in {"get-food-by-id", "get-food-by-ean13"}
             THEN {"empty_object", "json_null"} ELSE {"list", "json_list"})

\* the store with each malformed text taken as absent
Repaired(fs) ==
    [i \in 1..Len(fs) |->
        [c \in DOMAIN fs[i] |->
            IF c \in NestedAttrs
            THEN (IF fs[i][c].kind = "invalid" THEN JsonNull ELSE fs[i][c])
            ELSE fs[i][c]]]

CorruptIds(fs) == { fs[i].id : i \in { k \in 1..Len(fs) : SelectFails(fs[k]) } }

\* C10: when the stored text of one nested attribute of one record is not
\* JSON, an operation that returns that record succeeds and returns what it
\* returns on the store where that attribute is absent: the record with the
\* attribute None, its siblings unchanged.
C10_MalformedAttributeReadsAsAbsent ==
    (pc = "responded" /\ request.name \in ToolNames /\ PagingInRange
        /\ CorruptIds(foods) \cap IdsOf(Serve(Repaired(foods), request).records) # {})
    => response = Serve(Repaired(foods), request)

(***************************************************************************)
(* C11, C18, C20: the arguments of a tool call                             *)
(***************************************************************************)
\* C11: a get-foods tool call with arguments {page: 1, pageSize: k}, k >= 1,
\* returns exactly k records whenever the store holds at least k records.
C11_FirstPageHoldsPageSizeRecords ==
    (Responded("get-foods") /\ DOMAIN request.arguments = {"page", "pageSize"}
        /\ request.arguments.page = 1 /\ request.arguments.pageSize >= 1
        /\ Len(foods) >= request.arguments.pageSize)
    => /\ response.status = "ok"
       /\ Len(response.records) = request.arguments.pageSize

\* the argument a tool cannot do without
RequiredArg(name) ==
    CASE name = "search-food-by-name" -> "query"
      [] name = "get-food-by-id" -> "id"
      [] name = "get-food-by-ean13" -> "ean_13"

ValidationStatuses == {"ValueError", "ValidationError"}

\* C18: a call of search-food-by-name, get-food-by-id or get-food-by-ean13
\* that omits its required argument, or gives it as the empty string, ends in
\* a validation error before any statement is executed on the store.
C18_MissingRequiredArgumentIsValidationError ==
    (pc = "responded"
        /\ request.name \in {"search-food-by-name", "get-food-by-id", "get-food-by-ean13"}
        /\ NotGiven(request.arguments, RequiredArg(request.name)))
    => response.status \in ValidationStatuses /\ executed = 0

\* the arguments of the request with page 1 and a page size of 5 spelled out
\* under the names the server gives them
WithPagingSpelledOut(req) ==
    [req EXCEPT !.arguments =
        IF req.server = "fastmcp" THEN req.arguments @@ [page |-> 1, page_size |-> 5]
        ELSE req.arguments @@ [page |-> 1, pageSize |-> 5]]

\* C20: a search-food-by-name or get-foods call that omits page and pageSize
\* is served as the call with page 1 and a page size of 5.
C20_OmittedPagingIsPageOneOfFive ==
    (pc = "responded" /\ request.name \in {"search-food-by-name", "get-foods"}
        /\ ~HasArg(request.arguments, "page")
        /\ ~HasArg(request.arguments, "pageSize")
        /\ ~HasArg(request.arguments, "page_size"))
    => response = Serve(foods, WithPagingSpelledOut(request))

(***************************************************************************)
(* C13: lookup by barcode                                                  *)
(***************************************************************************)
ReturnsRecord == response.status = "ok" /\ response.shape \in {"object", "json_object"}

\* C13: for a 13-character argument b, get-food-by-ean13(b) returns a record
\* if and only if some stored record has ean_13 equal to b, and a record it
\* returns has ean_13 equal to b.
C13_BarcodeLookupIsExact ==
    (Responded("get-food-by-ean13") /\ HasArg(request.arguments, "ean_13")
        /\ Len(request.arguments.ean_13) = 13)
    => /\ response.status = "ok"
       /\ ReturnsRecord <=> \E i \in 1..Len(foods) :
                               foods[i].ean_13 = request.arguments.ean_13
       /\ \A r \in 1..Len(response.records) :
             response.records[r].ean_13 = request.arguments.ean_13

\* C13 witness: a record was found by its barcode in a store that also holds
\* a record with another barcode and a record without one.
C13_Witness ==
    /\ Responded("get-food-by-ean13") /\ ReturnsRecord
    /\ response.records[1].ean_13 = request.arguments.ean_13
    /\ \E i, j \in 1..Len(foods) :
          /\ foods[i].ean_13 = <<>>
          /\ Len(foods[j].ean_13) = 13 /\ foods[j].ean_13 # request.arguments.ean_13

(***************************************************************************)
(* C14, C16, C17: repeated calls, the store, failing queries               *)
(***************************************************************************)
\* the calls the model makes, on either server
AllCalls ==
    UNION { { [server |-> "fastmcp", name |-> n, arguments |-> a] : a \in FastArgs(n) }
              \cup { [server |-> "legacy", name |-> n, arguments |-> a] : a \in LegacyArgs(n) }
            : n \in ToolNames }

\* the calls among them that ask for the first page, or name no page
FirstPageCalls ==
    { c \in AllCalls : HasArg(c.arguments, "page") => c.arguments.page = 1 }

\* the store a call leaves behind
StoreAfter(fs, req) == Executed(fs, Serve(fs, req).executed)

QueryStep ==
    pc = "idle" /\ pc' = "responded" /\ request'.server \in {"fastmcp", "legacy"}

\* C16: the Query Service is read-only: no call of search_by_name, get_all,
\* get_by_id or get_by_ean13, successful or failing, changes the contents of
\* the foods store, so the store after any sequence of calls is the store
\* before it.
C16_QueriesLeaveStoreUnchanged == [][QueryStep => foods' = foods]_vars

\* C16 witness: statements were executed on a store that holds records, by a
\* call that failed.
C16_Witness ==
    /\ pc = "responded" /\ executed = 1 /\ response.status = "OperationalError"
    /\ Len(foods) >= 1

\* the page and page size a call is served with
PageOf(req) ==
    GetInt(req.arguments, "page",
           IF req.server = "fastmcp" THEN FastDefaultPage ELSE DefaultPage)
PageSizeOf(req) ==
    IF req.server = "fastmcp"
    THEN GetInt(req.arguments, "page_size", FastDefaultPageSize)
    ELSE GetInt(req.arguments, "pageSize", DefaultPageSize)

\* the outcome of the store query of a call that passed validation
StoreQuery(fs, req) ==
    CASE req.name = "search-food-by-name" ->
            search_by_name(fs, req.arguments.query, PageOf(req), PageSizeOf(req))
      [] req.name = "get-foods" -> get_all(fs, PageOf(req), PageSizeOf(req))
      [] req.name = "get-food-by-id" -> get_by_id(fs, req.arguments.id)
      [] req.name = "get-food-by-ean13" -> get_by_ean13(fs, req.arguments.ean_13)

\* C17: when the store query of one of the four operations fails, the call
\* ends in that error: one statement was executed (no retry) and no record,
\* list or empty result is returned in place of the error.
C17_FailedQueryReachesCaller ==
    (pc = "responded" /\ request.name \in ToolNames
        /\ response.status \notin ValidationStatuses
        /\ StoreQuery(foods, request).status # "ok")
    => /\ response.status = StoreQuery(foods, request).status
       /\ response.shape = "none" /\ response.records = <<>>
       /\ executed = 1

\* C17 witness: a listing of two records failed on the malformed text of the
\* second, and the first was not returned in its place.
C17_Witness ==
    /\ Responded("get-foods") /\ response.status = "OperationalError"
    /\ executed = 1 /\ PageOf(request) = 1 /\ PageSizeOf(request) = 2
    /\ Len(foods) = 2 /\ ~SelectFails(foods[1]) /\ SelectFails(foods[2])

(***************************************************************************)
(* C12, C15: listed records looked up by id; import and query round trip   *)
(***************************************************************************)
\* the get-food-by-id call for an id, on the server that served the request
LookupById(id) ==
    [server |-> request.server, name |-> "get-food-by-id", arguments |-> [id |-> id]]

\* C12: for every record r returned by search-food-by-name or get-foods, a
\* get-food-by-id call with r.id on the unchanged store succeeds and returns
\* a record with the id and the name of r.
C12_ListedRecordIsFoundById ==
    (pc = "responded" /\ request.name \in {"search-food-by-name", "get-foods"}
        /\ response.status = "ok")
    => \A r \in 1..Len(response.records) :
          LET found == Serve(foods, LookupById(response.records[r].id))
          IN  /\ found.status = "ok"
              /\ found.records # <<>>
              /\ found.records[1].id = response.records[r].id
              /\ found.records[1].name = response.records[r].name

ValidJsonKinds == {"object", "array", "string", "number", "boolean"}

\* the dataset of the import that was just run
ImportedDataset == request.arguments.dataset

\* row i of the dataset is the row the store keeps for its id
IsKept(dataset, i) == \A j \in (i + 1)..Len(dataset) : dataset[j].id # dataset[i].id

\* C15: for every nested attribute whose value in the imported dataset is
\* valid JSON (an object, an array, a string, a number or a boolean), the
\* value the Query Service returns for that attribute of the record is equal
\* to the value the importer parsed.
C15_ImportQueryRoundTrip ==
    Responded("create_database")
    => \A i \in 1..Len(ImportedDataset) : \A c \in NestedAttrs :
          (IsKept(ImportedDataset, i) /\ ImportedDataset[i][c].kind \in ValidJsonKinds)
          => LET res == get_by_id(foods, ImportedDataset[i].id)
             IN  /\ res.status = "ok"
                 /\ res.rows # <<>>
                 /\ res.rows[1][c] = parse_json_field(ImportedDataset[i][c])

(***************************************************************************)
(* C19: the tools the server exposes                                       *)
(***************************************************************************)
\* C19: whatever the transport, the host and the port the server was started
\* with, the tool names it lists are exactly search-food-by-name, get-foods,
\* get-food-by-id and get-food-by-ean13.
C19_ExposedToolsAreTheFourNames ==
    Responded("tools/list")
    => response.records
         = {"search-food-by-name", "get-foods", "get-food-by-id", "get-food-by-ean13"}

(***************************************************************************)
(* C29: a tool name the legacy dispatcher does not know                    *)
(***************************************************************************)
\* C29: in the legacy dispatcher, a call_tool request whose tool name is not
\* one of the four registered names ends in a ValueError and no statement is
\* executed on the store.
C29_UnknownLegacyToolIsValueError ==
    (pc = "responded" /\ request.server = "legacy" /\ request.name \notin ToolNames
        /\ request.name # "tools/list")
    => /\ response.status = "ValueError"
       /\ response.records = <<>>
       /\ executed = 0

\* C29 witness: the legacy dispatcher answered a call of "get-food" on a store
\* that holds records.
C29_Witness ==
    /\ pc = "responded" /\ request.server = "legacy" /\ request.name = "get-food"
    /\ response.status = "ValueError" /\ Len(foods) >= 1

(***************************************************************************)
(* C28: a page below the first                                             *)
(***************************************************************************)
\* the request with its page set to 1
AtPageOne(req) == [req EXCEPT !.arguments.page = 1]

FastParameters(name) ==
    CASE name = "search-food-by-name" -> {"query", "page", "page_size"}
      [] name = "get-foods" -> {"page", "page_size"}
      [] name = "get-food-by-id" -> {"id"}
      [] name = "get-food-by-ean13" -> {"ean_13"}

\* the keys call_tool reads from arguments, per tool
LegacyParameters(name) ==
    CASE name = "search-food-by-name" -> {"query", "page", "pageSize"}
      [] name = "get-foods" -> {"page", "pageSize"}
      [] name = "get-food-by-id" -> {"id"}
      [] name = "get-food-by-ean13" -> {"ean_13"}

\* the request carries an argument name its operation does not define
HasUndefinedArgument ==
    \E key \in DOMAIN request.arguments :
        key \notin (IF request.server = "fastmcp" THEN FastParameters(request.name)
                    ELSE LegacyParameters(request.name))

\* C22: a tool call that carries an argument name the operation does not
\* define is rejected with an error before any statement is executed on the
\* store.
C22_UndefinedArgumentIsRejected ==
    (pc = "responded" /\ request.name \in ToolNames /\ HasUndefinedArgument)
    => /\ response.status \in ValidationStatuses
       /\ executed = 0

(***************************************************************************)
(* C24: the statements a call executes                                     *)
(***************************************************************************)
\* a call of a tool was answered, by either server
ToolCallAnswered ==
    pc = "responded" /\ request.server \in {"fastmcp", "legacy"}
        /\ request.name \notin {"tools/list", "main"}

\* C24: every tool call executes at most one statement on the store: none
\* when it ends in a validation error, exactly one in every other case, be
\* the outcome of that statement records, nothing or an error.
C24_OneQueryPerCall ==
    ToolCallAnswered
    => /\ executed <= 1
       /\ response.executed = executed
       /\ executed = (IF response.status \in ValidationStatuses THEN 0 ELSE 1)

\* C24 witness: a lookup that passed validation found nothing, and one
\* statement was executed.
C24_Witness ==
    /\ Responded("get-food-by-id") /\ request.server = "fastmcp"
    /\ response.status = "ok" /\ response.shape = "empty_object"
    /\ executed = 1 /\ Len(foods) >= 1

(***************************************************************************)
(* C23: the pages of a search                                              *)
(***************************************************************************)
\* the records a query matches, once each, in the order of the table: a row
\* matches when one of its joined rows passes the WHERE clause of the terms
RECURSIVE MatchingOrder(_, _)
MatchingOrder(fs, terms) ==
    IF fs = <<>> THEN <<>>
    ELSE LET alts == AltValues(Head(fs))
             rest == MatchingOrder(Tail(fs), terms)
         IN  IF \E j \in 1..Len(alts) : WhereClause(Head(fs), alts[j], terms)
             THEN << FoodItemDict(SelectRow(Head(fs))) >> \o rest
             ELSE rest

\* the elements of s at offsets from up to to - 1, as far as s goes
Slice(s, from, to) == SubSeq(s, from + 1, Min(to, Len(s)))

\* C23: for every query, page p >= 1 and page size k >= 1, search_by_name
\* returns exactly the elements at offsets (p-1)*k up to p*k - 1 of one fixed
\* ordering of the matching set in which every matching record stands once.
\* Stated for the calls that reach search_by_name.
C23_PageIsSliceOfMatchingOrder ==
    (Responded("search-food-by-name") /\ HasArg(request.arguments, "query")
        /\ response.status \notin ValidationStatuses
        /\ PageOf(request) >= 1 /\ PageSizeOf(request) >= 1)
    => LET p == PageOf(request)
           k == PageSizeOf(request)
           matching == MatchingOrder(foods, Terms(request.arguments.query))
       IN  /\ response.status = "ok"
           /\ response.records = Slice(matching, (p - 1) * k, p * k)

(***************************************************************************)
(* C25: the barcode of a returned record                                   *)
(***************************************************************************)
\* a tool of either server returned records
RecordsReturned ==
    pc = "responded" /\ request.name \in ToolNames /\ response.status = "ok"

\* the stored rows a returned record was made from
StoredRowsOf(rec) == { i \in 1..Len(foods) : foods[i].id = rec.id }

\* C25: in every record returned by any operation, ean_13 is a string and
\* never null: a record whose stored barcode is NULL or empty is returned
\* with ean_13 equal to the empty string, any other with its stored barcode.
C25_ReturnedBarcodeIsNeverNull ==
    RecordsReturned
    => \A r \in 1..Len(response.records) :
          LET rec == response.records[r]
          IN  /\ rec.ean_13 # NullText
              /\ \A i \in StoredRowsOf(rec) :
                    rec.ean_13 = (IF foods[i].ean_13 \in {NullText, <<>>}
                                  THEN <<>> ELSE foods[i].ean_13)

\* C25 witness: a record whose stored barcode is NULL was returned.
C25_Witness ==
    /\ RecordsReturned /\ response.records # <<>>
    /\ \E i \in StoredRowsOf(response.records[1]) : foods[i].ean_13 = NullText

(***************************************************************************)
(* C26, C27, C30: the store the importer leaves                            *)
(***************************************************************************)
\* a step in which the importer runs, and the dataset it runs on
ImportStep == pc = "idle" /\ pc' = "responded" /\ request'.name = "create_database"
StepDataset == request'.arguments.dataset

DatasetIds(dataset) == { dataset[i].id : i \in 1..Len(dataset) }

\* the last row of the dataset that carries the id
LastWithId(dataset, id) ==
    dataset[CHOOSE i \in 1..Len(dataset) :
                dataset[i].id = id /\ IsKept(dataset, i)]

\* C26: after create_database has finished on a dataset, the store holds
\* exactly one row per distinct id of the dataset, and that row is the one
\* made from the last row of the dataset with the id; a store that held no
\* row before holds these rows and no other.
C26_OneRowPerIdTheLastKept ==
    [][(ImportStep /\ response'.status = "ok")
       => /\ \A id \in DatasetIds(StepDataset) :
                /\ Cardinality({ i \in 1..Len(foods') : foods'[i].id = id }) = 1
                /\ \E i \in 1..Len(foods') :
                      foods'[i] = ImportedRow(LastWithId(StepDataset, id))
          /\ foods = <<>> => Len(foods') = Cardinality(DatasetIds(StepDataset))]_vars

\* C26 witness: the importer finished on a dataset of two rows with the same
\* id and different names.
C26_Witness ==
    /\ Responded("create_database") /\ response.status = "ok"
    /\ Len(ImportedDataset) = 2
    /\ ImportedDataset[1].id = ImportedDataset[2].id
    /\ ImportedDataset[1].name # ImportedDataset[2].name
    /\ \E i \in 1..Len(foods) : foods[i].name = ImportedDataset[2].name

\* C27: in every store the importer produces, each row has a non-empty id
\* and a barcode that is absent (empty or NULL) or exactly 13 characters long.
C27_StoredIdsAndBarcodesAreWellFormed ==
    \A i \in 1..Len(foods) :
        /\ foods[i].id # <<>>
        /\ \/ foods[i].ean_13 \in {<<>>, NullText}
           \/ Len(foods[i].ean_13) = 13

\* C30: the import is idempotent: run again on the store it has just left,
\* create_database with the same dataset leaves the same rows in the same
\* order; and a run on a store that holds rows keeps every row whose id is
\* not in the dataset.
C30_ImportIsIdempotentAndKeepsOtherRows ==
    [][ImportStep
       => /\ create_database(foods', StepDataset) = foods'
          /\ \A i \in 1..Len(foods) :
                foods[i].id \notin DatasetIds(StepDataset)
                => \E j \in 1..Len(foods') : foods'[j] = foods[i]]_vars

\* C30 witness: the importer finished on a dataset with rows, on a store that
\* held a row of another id, which is still there.
C30_Witness ==
    /\ Responded("create_database") /\ response.status = "ok"
    /\ ImportedDataset # <<>>
    /\ Len(foods) > Cardinality(DatasetIds(ImportedDataset))

(***************************************************************************)
(* C21: overlapping calls                                                  *)
(***************************************************************************)
\* caller c has sent a call that no handler has taken up, while the handler
\* of another call is executing
Waits(c) ==
    /\ calls[c].state = "issued"
    /\ \E d \in Callers : calls[d].state = "running"

====
